---- MODULE Spec2Model ----
(***************************************************************************)
(* Model of src/src/app.py: the Streamlit dashboard of the AI hedge fund.  *)
(*                                                                         *)
(* Three specifications share the variables of this module:                *)
(*   Spec          the dashboard: widget changes and clicks on             *)
(*                 'Run Analysis', each of which is one run of main();     *)
(*   SpecWorkflow  create_workflow on arbitrary arguments, followed by the *)
(*                 execution of the graph it builds;                       *)
(*   SpecDisplay   display_signal on nested signal structures.             *)
(***************************************************************************)
EXTENDS Integers, Sequences, FiniteSets, TLC

VARIABLES
    form,           \* widget values kept by the hosting framework
    clicked,        \* value of st.button("Run Analysis") in the last run
    display,        \* elements rendered by the last run of main()
    escaped,        \* exception that left main() in the last run, or NoError
    tried,          \* exception raised inside the try block of the last run
    calls,          \* arguments of run_hedge_fund in the last run
    invocations,    \* arguments of agent.invoke in the last run
    outcome,        \* what agent.invoke did in the last run
    wf_input,       \* argument of create_workflow
    workflow,       \* result of create_workflow
    stage,          \* position of the workflow run
    active,         \* nodes of the current superstep
    finished,       \* nodes of the current superstep that have run
    ran,            \* nodes run so far, in order
    signal_data,    \* argument of display_signal
    shown,          \* result of display_signal
    displayed       \* TRUE once display_signal has been applied

vars == <<form, clicked, display, escaped, tried, calls, invocations, outcome,
          wf_input, workflow, stage, active, finished, ran,
          signal_data, shown, displayed>>

uiVars == <<form, clicked, display, escaped, tried, calls, invocations, outcome>>
wfVars == <<wf_input, workflow, stage, active, finished, ran>>
dsVars == <<signal_data, shown, displayed>>

(***************************************************************************)
(* Bounds.                                                                 *)
(***************************************************************************)
\* nesting depth of the generated signal structures
MaxDepth == 2
\* length of the analyst lists handed to create_workflow
MaxAnalysts == 4

(***************************************************************************)
(* Python values.  Every value is a record of one shape so that values of  *)
(* different Python types can be compared.  Numbers are kept in hundredths *)
(* (0.5 is n = 50, 50 is n = 5000).                                        *)
(***************************************************************************)
NoError == "none"

PyNone == [t |-> "none", s |-> "", n |-> 0, items |-> <<>>]
PyStr(s) == [t |-> "str", s |-> s, n |-> 0, items |-> <<>>]
PyNum(n) == [t |-> "num", s |-> "", n |-> n, items |-> <<>>]
PyList(items) == [t |-> "list", s |-> "", n |-> 0, items |-> items]
\* a dict is the sequence of its items, in insertion order
PyDict(items) == [t |-> "dict", s |-> "", n |-> 0, items |-> items]
Item(k, v) == [k |-> k, v |-> v]

Range(q) == {q[i] : i \in 1..Len(q)}

HasKey(d, k) == \E i \in 1..Len(d.items) : d.items[i].k = k
Get(d, k) == d.items[CHOOSE i \in 1..Len(d.items) : d.items[i].k = k].v

\* bool(value)
Truthy(v) ==
    CASE v.t = "none" -> FALSE
      [] v.t = "str"  -> v.s # ""
      [] v.t = "num"  -> v.n # 0
      [] v.t = "list" -> Len(v.items) > 0
      [] v.t = "dict" -> Len(v.items) > 0

\* strings that float() accepts, with their value in hundredths
NumericStrings == {"0.5"}
FloatOfStr(s) == CASE s = "0.5" -> 50

\* float(value): the error it raises, or NoError
FloatError(v) ==
    CASE v.t = "num" -> NoError
      [] v.t = "str" -> IF v.s \in NumericStrings THEN NoError ELSE "ValueError"
      [] OTHER -> "TypeError"

FloatValue(v) == IF v.t = "num" THEN v.n ELSE FloatOfStr(v.s)

(***************************************************************************)
(* Rendered elements and results of rendering functions.                   *)
(***************************************************************************)
El(kind, text, arg, level) == [kind |-> kind, text |-> text, arg |-> arg, level |-> level]

\* a call that returned normally after rendering out
Ok(out) == [raised |-> NoError, out |-> out]
\* a call that rendered out and then raised e
Raise(e, out) == [raised |-> e, out |-> out]

\* statements executed in order: the first one that raises ends the block
RECURSIVE Chain(_)
Chain(rs) ==
    IF rs = <<>> THEN Ok(<<>>)
    ELSE IF Head(rs).raised # NoError THEN Head(rs)
    ELSE LET rest == Chain(Tail(rs))
         IN  [raised |-> rest.raised, out |-> Head(rs).out \o rest.out]

\* key.replace('_', ' ').title() on the keys that occur
Title(key) ==
    CASE key = "signal" -> "Signal"
      [] key = "confidence" -> "Confidence"
      [] key = "reasoning" -> "Reasoning"
      [] key = "details" -> "Details"
      [] key = "metrics" -> "Metrics"
      [] key = "max_position_size" -> "Max Position Size"
      [] key = "portfolio_value" -> "Portfolio Value"
      [] key = "trend_following" -> "Trend Following"
      [] key = "profitability_signal" -> "Profitability Signal"
      [] key = "technical_analyst_agent" -> "Technical Analyst Agent"
      [] key = "fundamentals_agent" -> "Fundamentals Agent"
      [] key = "sentiment_agent" -> "Sentiment Agent"
      [] key = "valuation_agent" -> "Valuation Agent"
      [] key = "risk_management_agent" -> "Risk Management Agent"

\* value.split(', ') on the strings that occur
Split(s) ==
    CASE s = "ROE: 0.2, Net Margin: 0.1" -> <<"ROE: 0.2", "Net Margin: 0.1">>
      [] OTHER -> <<s>>

\* the dict.get of lines 110-115 applied to str(value).lower()
SignalColor(v) ==
    CASE v.t = "str" /\ v.s \in {"bullish", "Bullish"} -> "Bullish (green)"
      [] v.t = "str" /\ v.s = "bearish" -> "Bearish (red)"
      [] v.t = "str" /\ v.s = "neutral" -> "Neutral (yellow)"
      [] v.t = "str" /\ v.s = "hold" -> "Hold (yellow)"
      [] v.t = "str" -> v.s
      [] OTHER -> "repr"

(***************************************************************************)
(* display_signal (lines 100-153).                                         *)
(***************************************************************************)
\* lines 119-121: the confidence line and its progress bar
DisplayConfidence(value, level) ==
    LET line == <<El("markdown", "Confidence", "", level)>>
    IN  IF FloatError(value) # NoError THEN Raise(FloatError(value), line)
        ELSE IF FloatValue(value) < 0 \/ FloatValue(value) > 10000
             THEN Raise("StreamlitAPIException", line)
        ELSE Ok(line \o <<El("progress", "", "", level)>>)

\* lines 135-140: the comma separated details
DisplayDetails(value, level) ==
    IF value.t # "str" THEN Raise("AttributeError", <<>>)
    ELSE LET metrics == Split(value.s)
         IN  Ok(<<El("columns", "", "", level)>> \o
                [i \in 1..Len(metrics) |-> El("markdown", "metric", metrics[i], level)])

\* line 153: the branch of a value that is not a dict reads indent, a local
\* that only the loop of the dict branch assigns
DisplayScalar(value, level) == Raise("UnboundLocalError", <<>>)

RECURSIVE display_signal(_, _)
display_signal(data, level) ==
    IF data.t = "dict"
    THEN LET DisplayItem(key, value) ==
                 CASE key = "signal" ->
                        Ok(<<El("markdown", "Signal", SignalColor(value), level)>>)
                   [] key = "confidence" -> DisplayConfidence(value, level)
                   [] key = "reasoning" ->
                        IF value.t = "dict"
                        THEN Chain(<<Ok(<<El("divider", "", "", level)>>)>> \o
                                   [i \in 1..Len(value.items) |->
                                       Chain(<<Ok(<<El("markdown", "bold", Title(value.items[i].k), level)>>),
                                               display_signal(value.items[i].v, level + 1)>>)])
                        ELSE Ok(<<El("divider", "", "", level),
                                  El("markdown", "text", "", level)>>)
                   [] key = "details" -> DisplayDetails(value, level)
                   [] OTHER ->
                        IF value.t = "dict"
                        THEN Chain(<<Ok(<<El("markdown", "key", Title(key), level)>>),
                                     display_signal(value, level + 1)>>)
                        ELSE Ok(<<El("markdown", "key", Title(key), level)>>)
         IN  Chain([i \in 1..Len(data.items) |->
                       DisplayItem(data.items[i].k, data.items[i].v)])
    ELSE DisplayScalar(data, level)

(***************************************************************************)
(* Signal structures.                                                      *)
(***************************************************************************)
SignalKeys == {"signal", "confidence", "reasoning", "details", "metrics"}
Scalars == {PyStr("bullish"), PyNum(5000)}

\* scalars, the empty dict and the dicts of one item, nested up to depth d
RECURSIVE Structures(_)
Structures(d) ==
    IF d = 0 THEN Scalars
    ELSE Scalars \cup {PyDict(<<>>)} \cup
         {PyDict(<<Item(k, v)>>) : k \in SignalKeys, v \in Structures(d - 1)}

\* signals of the shapes the agents of the pipeline produce
TechnicalSignal ==
    PyDict(<<Item("signal", PyStr("bullish")), Item("confidence", PyNum(5000)),
             Item("reasoning", PyDict(<<Item("trend_following",
                 PyDict(<<Item("signal", PyStr("bullish")),
                          Item("confidence", PyNum(5000)),
                          Item("metrics", PyDict(<<>>))>>))>>))>>)
FundamentalsSignal ==
    PyDict(<<Item("signal", PyStr("bearish")), Item("confidence", PyNum(2500)),
             Item("reasoning", PyDict(<<Item("profitability_signal",
                 PyDict(<<Item("signal", PyStr("bearish")),
                          Item("details", PyStr("ROE: 0.2, Net Margin: 0.1"))>>))>>))>>)
SentimentSignal ==
    PyDict(<<Item("signal", PyStr("neutral")), Item("confidence", PyNum(5000)),
             Item("reasoning", PyStr("text"))>>)
RiskSignal ==
    PyDict(<<Item("max_position_size", PyNum(100000)),
             Item("reasoning", PyDict(<<Item("portfolio_value", PyNum(100000))>>))>>)
SampleSignals == {TechnicalSignal, FundamentalsSignal, SentimentSignal, RiskSignal}

(***************************************************************************)
(* create_workflow (lines 26-62).  A StateGraph is its nodes, its edges    *)
(* and its entry point.                                                    *)
(***************************************************************************)
END == "__end__"

\* line 33: the default list
AllAnalysts == <<"technical_analyst", "fundamentals_analyst",
                 "sentiment_analyst", "valuation_analyst">>

\* lines 36-41: key -> node name
analyst_nodes ==
    [k \in {"technical_analyst", "fundamentals_analyst",
            "sentiment_analyst", "valuation_analyst"} |->
        CASE k = "technical_analyst" -> "technical_analyst_agent"
          [] k = "fundamentals_analyst" -> "fundamentals_agent"
          [] k = "sentiment_analyst" -> "sentiment_agent"
          [] k = "valuation_analyst" -> "valuation_agent"]

\* the argument None, or a list of keys
NoneArg == [none |-> TRUE, keys |-> <<>>]
ListArg(keys) == [none |-> FALSE, keys |-> keys]

SelectedOrDefault_IfEmpty(selected_analysts) ==
    IF selected_analysts.none \/ selected_analysts.keys = <<>>
    THEN AllAnalysts ELSE selected_analysts.keys

\* lines 32-33: if selected_analysts is None
SelectedOrDefault(selected_analysts) ==
    IF selected_analysts.none THEN AllAnalysts ELSE selected_analysts.keys

\* lines 44-47: the error of the i-th iteration of the first loop, or NoError:
\* an unknown key has no entry in analyst_nodes, and add_node refuses a name
\* that is already a node
AddNodeError(keys, i) ==
    IF keys[i] \notin DOMAIN analyst_nodes THEN "KeyError"
    ELSE IF \E j \in 1..(i - 1) : keys[j] = keys[i] THEN "ValueError"
    ELSE NoError

StartEdges_LastOnly(keys) ==
    {<<"start_node", analyst_nodes[keys[i]]>> : i \in (1..Len(keys)) \cap {Len(keys)}}

\* line 47: start_node -> each selected analyst
StartEdges(keys) ==
    {<<"start_node", analyst_nodes[keys[i]]>> : i \in 1..Len(keys)}

RiskEdges_AllAnalysts(keys) ==
    {<<analyst_nodes[k], "risk_management_agent">> : k \in DOMAIN analyst_nodes}

\* lines 54-56: each selected analyst -> risk_management_agent
RiskEdges(keys) ==
    {<<analyst_nodes[keys[i]], "risk_management_agent">> : i \in 1..Len(keys)}

create_workflow(selected_analysts) ==
    LET keys == SelectedOrDefault(selected_analysts)
        failing == {i \in 1..Len(keys) : AddNodeError(keys, i) # NoError}
    IN  IF failing # {}
        THEN [raised |-> AddNodeError(keys, CHOOSE i \in failing : \A j \in failing : i <= j),
              nodes |-> {}, edges |-> {}, entry_point |-> ""]
        ELSE [raised |-> NoError,
              nodes |-> {"start_node"}
                        \cup {analyst_nodes[keys[i]] : i \in 1..Len(keys)}
                        \cup {"risk_management_agent", "portfolio_management_agent"},
              edges |-> StartEdges(keys) \cup RiskEdges(keys)
                        \cup {<<"risk_management_agent", "portfolio_management_agent">>,
                              <<"portfolio_management_agent", END>>},
              entry_point |-> "start_node"]

NoWorkflow == [raised |-> NoError, nodes |-> {}, edges |-> {}, entry_point |-> ""]

\* a non-empty list of distinct keys of analyst_nodes
ValidSelection(arg) ==
    /\ ~arg.none
    /\ arg.keys # <<>>
    /\ Range(arg.keys) \subseteq DOMAIN analyst_nodes
    /\ \A i, j \in 1..Len(arg.keys) : i # j => arg.keys[i] # arg.keys[j]

\* the nodes that follow the nodes of from
Successors(graph, from) ==
    {m \in graph.nodes : \E n \in from : <<n, m>> \in graph.edges}

\* occurrences of x in q
Count(q, x) == Cardinality({i \in 1..Len(q) : q[i] = x})

(***************************************************************************)
(* parse_hedge_fund_response (lines 19-24).                                *)
(***************************************************************************)
Decision(action, quantity, confidence, reasoning) ==
    PyDict(<<Item("action", action), Item("quantity", quantity),
             Item("confidence", confidence), Item("reasoning", reasoning)>>)

\* contents of the final message of the pipeline
Contents ==
    {"{\"action\": \"buy\", \"quantity\": 10, \"confidence\": 0.5, \"reasoning\": \"ok\"}",
     "{\"action\": \"hold\", \"quantity\": 0, \"confidence\": \"0.5\", \"reasoning\": \"ok\"}",
     "{\"action\": \"buy\", \"quantity\": 10, \"confidence\": 50, \"reasoning\": \"ok\"}",
     "{\"action\": \"buy\", \"quantity\": 10, \"confidence\": \"high\", \"reasoning\": \"ok\"}",
     "{\"action\": null, \"quantity\": 10, \"confidence\": 0.5, \"reasoning\": \"ok\"}",
     "{\"action\": \"sell\", \"quantity\": 10, \"confidence\": 0.5}",
     "{\"action\": \"sell\"}",
     "{\"quantity\": 10}",
     "{}", "null", "0", "[]", "[1]", "\"buy\"",
     "Make a trading decision based on the provided data.",
     "{\"action\": \"buy\","}

\* json.loads on these contents
json_loads(text) ==
    LET Parsed(v) == [raised |-> NoError, value |-> v]
    IN  CASE text = "{\"action\": \"buy\", \"quantity\": 10, \"confidence\": 0.5, \"reasoning\": \"ok\"}" ->
               Parsed(Decision(PyStr("buy"), PyNum(1000), PyNum(50), PyStr("ok")))
          [] text = "{\"action\": \"hold\", \"quantity\": 0, \"confidence\": \"0.5\", \"reasoning\": \"ok\"}" ->
               Parsed(Decision(PyStr("hold"), PyNum(0), PyStr("0.5"), PyStr("ok")))
          [] text = "{\"action\": \"buy\", \"quantity\": 10, \"confidence\": 50, \"reasoning\": \"ok\"}" ->
               Parsed(Decision(PyStr("buy"), PyNum(1000), PyNum(5000), PyStr("ok")))
          [] text = "{\"action\": \"buy\", \"quantity\": 10, \"confidence\": \"high\", \"reasoning\": \"ok\"}" ->
               Parsed(Decision(PyStr("buy"), PyNum(1000), PyStr("high"), PyStr("ok")))
          [] text = "{\"action\": null, \"quantity\": 10, \"confidence\": 0.5, \"reasoning\": \"ok\"}" ->
               Parsed(Decision(PyNone, PyNum(1000), PyNum(50), PyStr("ok")))
          [] text = "{\"action\": \"sell\", \"quantity\": 10, \"confidence\": 0.5}" ->
               Parsed(PyDict(<<Item("action", PyStr("sell")), Item("quantity", PyNum(1000)),
                               Item("confidence", PyNum(50))>>))
          [] text = "{\"action\": \"sell\"}" -> Parsed(PyDict(<<Item("action", PyStr("sell"))>>))
          [] text = "{\"quantity\": 10}" -> Parsed(PyDict(<<Item("quantity", PyNum(1000))>>))
          [] text = "{}" -> Parsed(PyDict(<<>>))
          [] text = "null" -> Parsed(PyNone)
          [] text = "0" -> Parsed(PyNum(0))
          [] text = "[]" -> Parsed(PyList(<<>>))
          [] text = "[1]" -> Parsed(PyList(<<PyNum(100)>>))
          [] text = "\"buy\"" -> Parsed(PyStr("buy"))
          [] OTHER -> [raised |-> "JSONDecodeError", value |-> PyNone]

ExceptAll_Reraise(response, loaded) ==
    [raised |-> loaded.raised, value |-> loaded.value, out |-> <<>>]

\* lines 22-24: loaded is what json.loads did; the bare except reports the
\* failure and returns None
ExceptAll(response, loaded) ==
    IF loaded.raised = NoError
    THEN [raised |-> NoError, value |-> loaded.value, out |-> <<>>]
    ELSE [raised |-> NoError, value |-> PyNone,
          out |-> <<El("error", "Error parsing response", response, 0)>>]

parse_hedge_fund_response(response) ==
    ExceptAll(response, json_loads(response))

(***************************************************************************)
(* run_hedge_fund (lines 64-98).                                           *)
(***************************************************************************)
\* what agent.invoke does: it raises, or it returns the final state
NoOutcome == [kind |-> "none", error |-> NoError, content |-> "", signals |-> PyDict(<<>>)]
Raised(e) == [kind |-> "raised", error |-> e, content |-> "", signals |-> PyDict(<<>>)]
Returned(c, sig) == [kind |-> "returned", error |-> NoError, content |-> c, signals |-> sig]

\* final_state["data"]["analyst_signals"]
SignalMaps ==
    {PyDict(<<>>),
     PyDict(<<Item("technical_analyst_agent", TechnicalSignal),
              Item("sentiment_agent", SentimentSignal)>>),
     PyDict(<<Item("fundamentals_agent", FundamentalsSignal),
              Item("risk_management_agent", RiskSignal)>>),
     PyDict(<<Item("sentiment_agent", PyStr("bullish"))>>)}

PipelineErrors == {"RuntimeError"}

\* every content without signals, and every signal map with the contents
\* that parse to a complete decision or to null
Outcomes ==
    {Raised(e) : e \in PipelineErrors}
    \cup {Returned(c, PyDict(<<>>)) : c \in Contents}
    \cup {Returned(c, sig) :
              c \in {"{\"action\": \"buy\", \"quantity\": 10, \"confidence\": 0.5, \"reasoning\": \"ok\"}",
                     "null"},
              sig \in SignalMaps}

InitialState_Shared(ticker, start_date, end_date, portfolio, show_reasoning) ==
    [messages |-> <<"Make a trading decision based on the provided data.">>,
     ticker |-> ticker, portfolio |-> portfolio,
     start_date |-> start_date, end_date |-> end_date,
     analyst_signals |-> outcome.signals,
     show_reasoning |-> show_reasoning]

\* lines 77-93: the argument of agent.invoke
InitialState(ticker, start_date, end_date, portfolio, show_reasoning) ==
    [messages |-> <<"Make a trading decision based on the provided data.">>,
     ticker |-> ticker, portfolio |-> portfolio,
     start_date |-> start_date, end_date |-> end_date,
     analyst_signals |-> PyDict(<<>>),
     show_reasoning |-> show_reasoning]

NoResult == [raised |-> NoError, decision |-> PyNone, analyst_signals |-> PyDict(<<>>),
             out |-> <<>>, invocations |-> <<>>]

\* lines 73-98 once the workflow wf, the initial state and the parsed
\* content are at hand; o is what agent.invoke does when it is called
InvokeAndParse(wf, state, o, parsed) ==
    IF wf.raised # NoError THEN [NoResult EXCEPT !.raised = wf.raised]
    ELSE IF o.kind = "raised"
         THEN [NoResult EXCEPT !.raised = o.error,
                               !.invocations = <<[state |-> state, graph |-> wf]>>]
    ELSE [raised |-> parsed.raised, decision |-> parsed.value,
          analyst_signals |-> o.signals, out |-> parsed.out,
          invocations |-> <<[state |-> state, graph |-> wf]>>]

run_hedge_fund(ticker, start_date, end_date, portfolio, show_reasoning, selected_analysts, o) ==
    InvokeAndParse(create_workflow(selected_analysts),
                   InitialState(ticker, start_date, end_date, portfolio, show_reasoning),
                   o, parse_hedge_fund_response(o.content))

(***************************************************************************)
(* main (lines 155-267).                                                   *)
(***************************************************************************)
\* decision[key]: the error it raises, or NoError
SubscriptError(decision, key) ==
    IF decision.t = "dict"
    THEN IF HasKey(decision, key) THEN NoError ELSE "KeyError"
    ELSE "TypeError"

\* lines 229-240
RenderAction(decision) ==
    IF SubscriptError(decision, "action") # NoError
    THEN Raise(SubscriptError(decision, "action"), <<>>)
    ELSE IF Get(decision, "action").t # "str" THEN Raise("AttributeError", <<>>)
    ELSE Ok(<<El("markdown", "Action", "", 0),
              El("markdown", "action", Get(decision, "action").s, 0)>>)

\* lines 243-245
RenderQuantity(decision) ==
    IF SubscriptError(decision, "quantity") # NoError
    THEN Raise(SubscriptError(decision, "quantity"), <<El("markdown", "Quantity", "", 0)>>)
    ELSE Ok(<<El("markdown", "Quantity", "", 0), El("markdown", "quantity", "", 0)>>)

\* lines 248-251: st.progress takes a float between 0.0 and 1.0
RenderConfidence(decision) ==
    LET label == <<El("markdown", "Confidence", "", 0)>>
    IN  IF SubscriptError(decision, "confidence") # NoError
        THEN Raise(SubscriptError(decision, "confidence"), label)
        ELSE IF FloatError(Get(decision, "confidence")) # NoError
             THEN Raise(FloatError(Get(decision, "confidence")), label)
        ELSE IF FloatValue(Get(decision, "confidence")) < 0
                \/ FloatValue(Get(decision, "confidence")) > 100
             THEN Raise("StreamlitAPIException", label)
        ELSE Ok(label \o <<El("progress", "", "", 0), El("markdown", "percent", "", 0)>>)

\* lines 254-255
RenderReasoning(decision) ==
    IF SubscriptError(decision, "reasoning") # NoError
    THEN Raise(SubscriptError(decision, "reasoning"), <<El("markdown", "Reasoning", "", 0)>>)
    ELSE Ok(<<El("markdown", "Reasoning", "", 0), El("info", "reasoning", "", 0)>>)

\* lines 258-262
RenderSignals(show_reasoning, analyst_signals) ==
    IF show_reasoning /\ Truthy(analyst_signals)
    THEN Chain(<<Ok(<<El("subheader", "Analyst Signals", "", 0)>>)>> \o
               [i \in 1..Len(analyst_signals.items) |->
                   Chain(<<Ok(<<El("expander", Title(analyst_signals.items[i].k),
                                   analyst_signals.items[i].k, 0)>>),
                           display_signal(analyst_signals.items[i].v, 0)>>)])
    ELSE Ok(<<>>)

DecisionPresent_NotNone(decision) == decision.t # "none"

\* line 224: if result["decision"]
DecisionPresent(decision) == Truthy(decision)

\* lines 222-264
RenderResult(result, show_reasoning) ==
    Chain(<<Ok(<<El("header", "Analysis Results", "", 0)>>),
            IF DecisionPresent(result.decision)
            THEN Chain(<<Ok(<<El("subheader", "Trading Decision", "", 0),
                              El("columns", "", "", 0)>>),
                         RenderAction(result.decision),
                         RenderQuantity(result.decision),
                         RenderConfidence(result.decision),
                         RenderReasoning(result.decision),
                         RenderSignals(show_reasoning, result.analyst_signals)>>)
            ELSE Ok(<<El("error", "No valid trading decision was generated.", "", 0)>>)>>)

\* line 163: .upper() on the texts that occur
Upper(text) ==
    CASE text = "AAPL" -> "AAPL"
      [] text = "msft" -> "MSFT"

\* the dates that occur
Dates == {<<2024, 8, 1>>, <<2024, 11, 1>>}
Before(d, e) == d[1] < e[1] \/ (d[1] = e[1] /\ (d[2] < e[2] \/ (d[2] = e[2] /\ d[3] <= e[3])))

\* lines 214-215: strftime("%Y-%m-%d")
strftime(date) ==
    CASE date = <<2024, 8, 1>> -> "2024-08-01"
      [] date = <<2024, 11, 1>> -> "2024-11-01"

\* lines 186-191: the checkboxes, in the order of the dict
analysts == <<"technical_analyst", "fundamentals_analyst",
              "sentiment_analyst", "valuation_analyst">>

\* lines 193-197
SelectedAnalysts(f) == SelectSeq(analysts, LAMBDA key : key \in f.checked)

NoneSelected_Never(selected_analysts) == FALSE

\* line 199: if not selected_analysts
NoneSelected(selected_analysts) == selected_analysts = <<>>

RunRequested_Always(click) == TRUE

\* line 204: if st.button("Run Analysis")
RunRequested(click) == click

Caught_ValueErrorOnly(e) == e = "ValueError"

\* line 266: except Exception catches the subclasses of Exception
Caught(e) ==
    e \in {"KeyError", "ValueError", "TypeError", "AttributeError",
           "UnboundLocalError", "RuntimeError", "JSONDecodeError",
           "StreamlitAPIException"}

\* lines 207-264: the body of the try block, given the result of
\* run_hedge_fund
TryBody(result, show_reasoning) ==
    IF result.raised # NoError THEN Raise(result.raised, result.out)
    ELSE Chain(<<Ok(result.out), RenderResult(result, show_reasoning)>>)

\* lines 266-267: the handler, given what the body did
Handler(body, selected_analysts, invoked) ==
    [out |-> IF body.raised # NoError /\ Caught(body.raised)
             THEN body.out \o <<El("error", "An error occurred", body.raised, 0)>>
             ELSE body.out,
     escaped |-> IF body.raised = NoError \/ Caught(body.raised)
                 THEN NoError ELSE body.raised,
     tried |-> body.raised,
     calls |-> <<[selected_analysts |-> selected_analysts]>>,
     invocations |-> invoked]

TryExcept(f, result) ==
    Handler(TryBody(result, f.show_reasoning), ListArg(SelectedAnalysts(f)),
            result.invocations)

\* lines 206-267: the run action
RunAction(f, o) ==
    TryExcept(f, run_hedge_fund(Upper(f.ticker), strftime(f.start_date),
                                strftime(f.end_date),
                                [cash |-> f.initial_cash, stock |-> f.initial_stock],
                                f.show_reasoning, ListArg(SelectedAnalysts(f)), o))

\* one run of the script: click is the value of the button, o what
\* agent.invoke does if it is called
main(f, click, o) ==
    LET top == <<El("title", "AI Hedge Fund Trading System", "", 0),
                 El("header", "Select AI Analysts", "", 0)>>
        idle == [out |-> <<>>, escaped |-> NoError, tried |-> NoError,
                 calls |-> <<>>, invocations |-> <<>>]
        button == <<El("button", "Run Analysis", "", 0)>>
    IN  IF NoneSelected(SelectedAnalysts(f))
        THEN [idle EXCEPT !.out = top \o
                  <<El("warning", "You must select at least one analyst.", "", 0)>>]
        ELSE IF RunRequested(click)
             THEN [RunAction(f, o) EXCEPT !.out = top \o button \o @]
        ELSE [idle EXCEPT !.out = top \o button]

(***************************************************************************)
(* Spec: the dashboard.  Every widget change and every click reruns main.  *)
(***************************************************************************)
Tickers == {"AAPL", "msft"}
Cash == {100000, 0}
Stock == {0, 10}

DefaultForm ==
    [ticker |-> "AAPL", initial_cash |-> 100000, initial_stock |-> 0,
     start_date |-> <<2024, 8, 1>>, end_date |-> <<2024, 11, 1>>,
     show_reasoning |-> FALSE,
     checked |-> {"technical_analyst", "fundamentals_analyst",
                  "sentiment_analyst", "valuation_analyst"}]

\* the state after a run r of the script on f with the button at click
Shown(f, click, o, r) ==
    /\ form' = f
    /\ clicked' = click
    /\ display' = r.out
    /\ escaped' = r.escaped
    /\ tried' = r.tried
    /\ calls' = r.calls
    /\ invocations' = r.invocations
    /\ outcome' = IF r.invocations # <<>> THEN o ELSE NoOutcome
    /\ UNCHANGED <<wfVars, dsVars>>

Rerun(f, click, o) == Shown(f, click, o, main(f, click, o))

Init ==
    /\ form = DefaultForm
    /\ clicked = FALSE
    /\ display = main(DefaultForm, FALSE, NoOutcome).out
    /\ escaped = NoError
    /\ tried = NoError
    /\ calls = <<>>
    /\ invocations = <<>>
    /\ outcome = NoOutcome
    /\ wf_input = NoneArg
    /\ workflow = NoWorkflow
    /\ stage = "idle"
    /\ active = {}
    /\ finished = {}
    /\ ran = <<>>
    /\ signal_data = PyNone
    /\ shown = Ok(<<>>)
    /\ displayed = FALSE

SetTicker(text) ==
    /\ text # form.ticker
    /\ Rerun([form EXCEPT !.ticker = text], FALSE, NoOutcome)

SetCash(value) ==
    /\ value # form.initial_cash
    /\ Rerun([form EXCEPT !.initial_cash = value], FALSE, NoOutcome)

SetStock(value) ==
    /\ value # form.initial_stock
    /\ Rerun([form EXCEPT !.initial_stock = value], FALSE, NoOutcome)

\* line 176: the start date is at most the end date
SetDates(start, end) ==
    /\ <<start, end>> # <<form.start_date, form.end_date>>
    /\ Before(start, end)
    /\ Rerun([form EXCEPT !.start_date = start, !.end_date = end], FALSE, NoOutcome)

ToggleReasoning ==
    Rerun([form EXCEPT !.show_reasoning = ~@], FALSE, NoOutcome)

ToggleAnalyst(key) ==
    Rerun([form EXCEPT !.checked = IF key \in @ THEN @ \ {key} ELSE @ \cup {key}],
          FALSE, NoOutcome)

ButtonOffered == \E i \in 1..Len(display) : display[i].kind = "button"

ClickRun(o) ==
    /\ ButtonOffered
    /\ Rerun(form, TRUE, o)

Next ==
    \/ \E text \in Tickers : SetTicker(text)
    \/ \E value \in Cash : SetCash(value)
    \/ \E value \in Stock : SetStock(value)
    \/ \E start \in Dates, end \in Dates : SetDates(start, end)
    \/ ToggleReasoning
    \/ \E key \in Range(analysts) : ToggleAnalyst(key)
    \/ \E o \in Outcomes : ClickRun(o)

Spec == Init /\ [][Next]_vars

(***************************************************************************)
(* The parts of the state a specification does not use.                    *)
(***************************************************************************)
UiIdle ==
    /\ form = DefaultForm
    /\ clicked = FALSE
    /\ display = <<>>
    /\ escaped = NoError
    /\ tried = NoError
    /\ calls = <<>>
    /\ invocations = <<>>
    /\ outcome = NoOutcome

WfIdle ==
    /\ wf_input = NoneArg
    /\ workflow = NoWorkflow
    /\ stage = "idle"
    /\ active = {}
    /\ finished = {}
    /\ ran = <<>>

DsIdle ==
    /\ signal_data = PyNone
    /\ shown = Ok(<<>>)
    /\ displayed = FALSE

(***************************************************************************)
(* Properties of the dashboard.                                            *)
(***************************************************************************)
Shows(kind, text) ==
    \E i \in 1..Len(display) : display[i].kind = kind /\ display[i].text = text

\* the error messages on the page, in order
ErrorTexts ==
    LET errors == SelectSeq(display, LAMBDA e : e.kind = "error")
    IN  [i \in 1..Len(errors) |-> errors[i].text]

\* C1: an error raised in the run action never leaves main; it is shown as
\* the one message 'An error occurred: ...', after what was rendered so far.
C1_ErrorsCaught ==
    /\ escaped = NoError
    /\ tried # NoError =>
           /\ clicked
           /\ display[Len(display)] = El("error", "An error occurred", tried, 0)
           /\ Count(ErrorTexts, "An error occurred") = 1
    /\ tried = NoError => ~Shows("error", "An error occurred")

\* the pipeline itself fails
C1_Witness ==
    /\ clicked
    /\ outcome.kind = "raised"
    /\ tried = "RuntimeError"
    /\ Shows("error", "An error occurred")

ParseFailed ==
    /\ clicked
    /\ outcome.kind = "returned"
    /\ json_loads(outcome.content).raised # NoError

\* C2 as claimed: a JSON parsing failure shows the message of the top-level
\* handler and no other error message.
C2_SameMessage ==
    ParseFailed => ErrorTexts = <<"An error occurred">>

\* C2 as the code has it: a JSON parsing failure is reported by
\* parse_hedge_fund_response itself, main then reports that there is no
\* valid decision, and the message of the top-level handler is not shown.
C2_ParseFailureMessages ==
    ParseFailed =>
        /\ ErrorTexts = <<"Error parsing response",
                          "No valid trading decision was generated.">>
        /\ \E i \in 1..Len(display) :
               display[i] = El("error", "Error parsing response", outcome.content, 0)
        /\ Shows("header", "Analysis Results")
        /\ ~Shows("subheader", "Trading Decision")
        /\ tried = NoError
        /\ escaped = NoError

C2_Witness ==
    /\ ParseFailed
    /\ outcome.content = "{\"action\": \"buy\","
    /\ Shows("error", "Error parsing response")

\* C3: a run of the script with a click calls agent.invoke exactly once,
\* also when the call fails or its result does not parse; a run without a
\* click does not call it.
C3_OncePerClick ==
    /\ clicked => Len(invocations) = 1 /\ Len(calls) = 1
    /\ ~clicked => invocations = <<>> /\ calls = <<>>

C3_Witness ==
    /\ clicked
    /\ outcome.kind = "returned"
    /\ json_loads(outcome.content).raised # NoError
    /\ Len(invocations) = 1

\* the graph of the analysts checked in the form
FormGraph ==
    LET picked == {analyst_nodes[k] : k \in form.checked}
    IN  [raised |-> NoError,
         nodes |-> {"start_node", "risk_management_agent",
                    "portfolio_management_agent"} \cup picked,
         edges |-> {<<"start_node", a>> : a \in picked}
                   \cup {<<a, "risk_management_agent">> : a \in picked}
                   \cup {<<"risk_management_agent", "portfolio_management_agent">>,
                         <<"portfolio_management_agent", "__end__">>},
         entry_point |-> "start_node"]

\* C5: every invocation starts from the graph of the analysts checked at the
\* click and from a state with one human message, no analyst signal and the
\* values of the form; a page shows signals of its own run only, and a run
\* without a click shows no result.
C5_NoSharedState ==
    /\ \A i \in 1..Len(invocations) :
           /\ invocations[i].graph = FormGraph
           /\ Len(invocations[i].state.messages) = 1
           /\ invocations[i].state.analyst_signals = PyDict(<<>>)
           /\ invocations[i].state.ticker \in {"AAPL", "MSFT"}
           /\ invocations[i].state.ticker = "MSFT" <=> form.ticker = "msft"
           /\ invocations[i].state.start_date = "2024-08-01"
                  <=> form.start_date = <<2024, 8, 1>>
           /\ invocations[i].state.start_date = "2024-11-01"
                  <=> form.start_date = <<2024, 11, 1>>
           /\ invocations[i].state.end_date = "2024-08-01"
                  <=> form.end_date = <<2024, 8, 1>>
           /\ invocations[i].state.end_date = "2024-11-01"
                  <=> form.end_date = <<2024, 11, 1>>
           /\ invocations[i].state.portfolio =
                  [cash |-> form.initial_cash, stock |-> form.initial_stock]
           /\ invocations[i].state.show_reasoning = form.show_reasoning
    /\ \A i \in 1..Len(display) :
           display[i].kind = "expander" =>
               /\ clicked
               /\ HasKey(outcome.signals, display[i].arg)
    /\ ~clicked =>
           \A i \in 1..Len(display) :
               display[i].kind \in {"title", "header", "warning", "button"}
               /\ display[i].text # "Analysis Results"

\* a click on a changed form whose run returns analyst signals and shows them
C5_Witness ==
    /\ clicked
    /\ Len(invocations) = 1
    /\ form.ticker = "msft"
    /\ form.initial_cash = 0
    /\ form.show_reasoning
    /\ outcome.kind = "returned"
    /\ outcome.signals # PyDict(<<>>)
    /\ Shows("subheader", "Analyst Signals")

Parses ==
    /\ clicked
    /\ outcome.kind = "returned"
    /\ json_loads(outcome.content).raised = NoError

\* C7 as claimed: content that parses as JSON gets the 'Trading Decision'
\* section and no error message.
C7_ParseableIsEnough ==
    Parses => Shows("subheader", "Trading Decision") /\ ErrorTexts = <<>>

\* C7 as the code has it: content that parses to a truthy value gets the
\* 'Trading Decision' section and neither 'Error parsing response' nor 'No
\* valid trading decision was generated.'; content that parses to a falsy
\* value (null, {}, [], 0) gets 'No valid trading decision was generated.'
\* and no 'Trading Decision' section; a truthy value that is not a dict
\* with an action gets 'An error occurred', and a dict with a string
\* action, a quantity, a confidence between 0 and 1 and a reasoning gets no
\* error message as long as no analyst signal is rendered.
C7_TruthyDecisionRendered ==
    Parses =>
        LET decision == json_loads(outcome.content).value
            falsy == \/ decision.t = "none"
                     \/ decision.t = "num" /\ decision.n = 0
                     \/ decision.t = "str" /\ decision.s = ""
                     \/ decision.t \in {"list", "dict"} /\ decision.items = <<>>
            complete == /\ decision.t = "dict"
                        /\ \A k \in {"action", "quantity", "confidence", "reasoning"} :
                               HasKey(decision, k)
                        /\ Get(decision, "action").t = "str"
                        /\ \/ /\ Get(decision, "confidence").t = "num"
                              /\ Get(decision, "confidence").n \in 0..100
                           \/ /\ Get(decision, "confidence").t = "str"
                              /\ Get(decision, "confidence").s = "0.5"
        IN  /\ ~Shows("error", "Error parsing response")
            /\ ~falsy => /\ Shows("subheader", "Trading Decision")
                         /\ ~Shows("error", "No valid trading decision was generated.")
            /\ falsy => /\ ~Shows("subheader", "Trading Decision")
                        /\ ErrorTexts = <<"No valid trading decision was generated.">>
            /\ (~falsy /\ (decision.t # "dict" \/ ~HasKey(decision, "action")))
                   => ErrorTexts = <<"An error occurred">>
            /\ (complete /\ ~(form.show_reasoning /\ outcome.signals # PyDict(<<>>)))
                   => ErrorTexts = <<>> /\ Shows("info", "reasoning")

C7_Witness ==
    /\ Parses
    /\ outcome.content = "{}"
    /\ Shows("error", "No valid trading decision was generated.")

\* C8: without a checked analyst main warns and offers no button, and
\* run_hedge_fund and create_workflow only get non-empty lists of distinct
\* keys of analyst_nodes.
C8_SelectionRequired ==
    /\ form.checked = {} <=> Shows("warning", "You must select at least one analyst.")
    /\ form.checked = {} =>
           /\ ~ButtonOffered
           /\ display[Len(display)].kind = "warning"
           /\ calls = <<>>
           /\ invocations = <<>>
    /\ \A i \in 1..Len(calls) :
           /\ ValidSelection(calls[i].selected_analysts)
           /\ Range(calls[i].selected_analysts.keys) = form.checked
    /\ \A i \in 1..Len(invocations) :
           /\ invocations[i].graph.raised = NoError
           /\ Successors(invocations[i].graph, {"start_node"}) # {}

C8_Witness ==
    /\ form.checked = {}
    /\ Shows("warning", "You must select at least one analyst.")
    /\ ~ButtonOffered

(***************************************************************************)
(* SpecWorkflow: create_workflow on an argument, then compile and invoke   *)
(* as run_hedge_fund does (lines 73-76).  The compiled graph runs in       *)
(* supersteps: the nodes of a superstep run concurrently, and the next     *)
(* superstep holds every node that has an edge from a node of this one.    *)
(***************************************************************************)
AnalystChoices == DOMAIN analyst_nodes \cup {"macro_analyst"}

RECURSIVE SeqsUpTo(_, _)
SeqsUpTo(S, n) ==
    IF n = 0 THEN {<<>>}
    ELSE LET shorter == SeqsUpTo(S, n - 1)
         IN  shorter \cup {Append(q, x) : q \in {r \in shorter : Len(r) = n - 1}, x \in S}

WorkflowArgs == {NoneArg} \cup {ListArg(q) : q \in SeqsUpTo(AnalystChoices, MaxAnalysts)}

InitWorkflow ==
    /\ UiIdle
    /\ DsIdle
    /\ wf_input \in WorkflowArgs
    /\ workflow = NoWorkflow
    /\ stage = "new"
    /\ active = {}
    /\ finished = {}
    /\ ran = <<>>

CreateWorkflow ==
    /\ stage = "new"
    /\ workflow' = create_workflow(wf_input)
    /\ stage' = IF workflow'.raised = NoError THEN "built" ELSE "raised"
    /\ UNCHANGED <<wf_input, active, finished, ran, uiVars, dsVars>>

\* line 74
Compile ==
    /\ stage = "built"
    /\ stage' = "compiled"
    /\ UNCHANGED <<wf_input, workflow, active, finished, ran, uiVars, dsVars>>

\* line 76: the first superstep holds the entry point
Invoke ==
    /\ stage = "compiled"
    /\ stage' = "running"
    /\ active' = {workflow.entry_point}
    /\ finished' = {}
    /\ ran' = <<>>
    /\ UNCHANGED <<wf_input, workflow, uiVars, dsVars>>

\* a node of the current superstep runs
RunNode(n) ==
    /\ stage = "running"
    /\ n \in active \ finished
    /\ finished' = finished \cup {n}
    /\ ran' = Append(ran, n)
    /\ UNCHANGED <<wf_input, workflow, stage, active, uiVars, dsVars>>

\* an agent raises: the invocation ends with that error
NodeRaises(n) ==
    /\ stage = "running"
    /\ n \in active \ finished
    /\ n # "start_node"
    /\ stage' = "failed"
    /\ UNCHANGED <<wf_input, workflow, active, finished, ran, uiVars, dsVars>>

\* all nodes of the superstep have run: the next one starts, or the run ends
NextSuperstep ==
    /\ stage = "running"
    /\ finished = active
    /\ IF Successors(workflow, active) = {}
       THEN stage' = "ended" /\ UNCHANGED <<active, finished>>
       ELSE /\ active' = Successors(workflow, active)
            /\ finished' = {}
            /\ UNCHANGED stage
    /\ UNCHANGED <<wf_input, workflow, ran, uiVars, dsVars>>

NextWorkflow ==
    \/ CreateWorkflow
    \/ Compile
    \/ Invoke
    \/ \E n \in workflow.nodes : RunNode(n)
    \/ \E n \in workflow.nodes : NodeRaises(n)
    \/ NextSuperstep

SpecWorkflow == InitWorkflow /\ [][NextWorkflow]_vars

(***************************************************************************)
(* Properties of the graph and of its execution.                           *)
(***************************************************************************)
Built == stage \notin {"idle", "new"}

RECURSIVE ReachFrom(_, _)
ReachFrom(S, edges) ==
    LET next == S \cup {e[2] : e \in {f \in edges : f[1] \in S}}
    IN  IF next = S THEN S ELSE ReachFrom(next, edges)

Acyclic(edges) ==
    \A e \in edges : e[1] \notin ReachFrom({e[2]}, edges)

SelectedNodes(arg) == {analyst_nodes[k] : k \in Range(arg.keys)}

\* C4: for a non-empty duplicate-free selection the graph has exactly the
\* nodes start_node, the selected analysts, risk_management_agent and
\* portfolio_management_agent, exactly the edges of the pipeline, no cycle,
\* and start_node as its entry point.
C4_GraphShape ==
    (Built /\ ValidSelection(wf_input)) =>
        /\ workflow.raised = NoError
        /\ workflow.nodes = {"start_node", "risk_management_agent",
                             "portfolio_management_agent"} \cup SelectedNodes(wf_input)
        /\ workflow.edges =
               {<<"start_node", a>> : a \in SelectedNodes(wf_input)}
               \cup {<<a, "risk_management_agent">> : a \in SelectedNodes(wf_input)}
               \cup {<<"risk_management_agent", "portfolio_management_agent">>,
                     <<"portfolio_management_agent", END>>}
        /\ \A k \in DOMAIN analyst_nodes \ Range(wf_input.keys) :
               /\ analyst_nodes[k] \notin workflow.nodes
               /\ \A e \in workflow.edges : e[1] # analyst_nodes[k] /\ e[2] # analyst_nodes[k]
        /\ Acyclic(workflow.edges)
        /\ workflow.entry_point = "start_node"

C4_Witness ==
    /\ Built
    /\ ValidSelection(wf_input)
    /\ Len(wf_input.keys) = 2
    /\ workflow.raised = NoError

\* C9: create_workflow(None) builds the graph of the list of all four
\* analysts; an empty list gets no default and builds no analyst node.
C9_DefaultOnlyForNone ==
    Built =>
        /\ wf_input = NoneArg =>
               /\ workflow = create_workflow(ListArg(<<"technical_analyst",
                      "fundamentals_analyst", "sentiment_analyst", "valuation_analyst">>))
               /\ workflow.nodes = {"start_node", "technical_analyst_agent",
                      "fundamentals_agent", "sentiment_agent", "valuation_agent",
                      "risk_management_agent", "portfolio_management_agent"}
               /\ Cardinality(workflow.edges) = 10
               /\ workflow.entry_point = "start_node"
        /\ wf_input = ListArg(<<>>) =>
               /\ workflow.raised = NoError
               /\ workflow.nodes = {"start_node", "risk_management_agent",
                                    "portfolio_management_agent"}
               /\ workflow.edges = {<<"risk_management_agent", "portfolio_management_agent">>,
                                    <<"portfolio_management_agent", END>>}

C9_Witness == Built /\ wf_input = NoneArg /\ Cardinality(workflow.nodes) = 7

Position(q, x) == CHOOSE i \in 1..Len(q) : q[i] = x
RECURSIVE PathsFrom(_, _, _)
PathsFrom(graph, n, fuel) ==
    IF n = END THEN {<<END>>}
    ELSE IF fuel = 0 THEN {}
    ELSE UNION {{<<n>> \o p : p \in PathsFrom(graph, e[2], fuel - 1)} :
                    e \in {f \in graph.edges : f[1] = n}}

Paths(graph) == PathsFrom(graph, graph.entry_point, Cardinality(graph.nodes) + 1)

Invoked == stage \in {"running", "ended", "failed"}

\* C10: start_node runs first, risk_management_agent after every selected
\* analyst, portfolio_management_agent after risk_management_agent, the run
\* ends after portfolio_management_agent, both run once, and every path
\* from start_node to END is start_node, one analyst, risk, portfolio, END.
C10_PipelineOrder ==
    (Invoked /\ ValidSelection(wf_input)) =>
        /\ ran # <<>> => ran[1] = "start_node"
        /\ Count(ran, "start_node") <= 1
        /\ Count(ran, "risk_management_agent") <= 1
        /\ Count(ran, "portfolio_management_agent") <= 1
        /\ "risk_management_agent" \in Range(ran) =>
               \A a \in SelectedNodes(wf_input) :
                   /\ a \in Range(ran)
                   /\ Position(ran, a) < Position(ran, "risk_management_agent")
        /\ "portfolio_management_agent" \in Range(ran) =>
               /\ "risk_management_agent" \in Range(ran)
               /\ Position(ran, "risk_management_agent")
                      < Position(ran, "portfolio_management_agent")
        /\ stage = "ended" =>
               /\ Count(ran, "risk_management_agent") = 1
               /\ Count(ran, "portfolio_management_agent") = 1
               /\ ran[Len(ran)] = "portfolio_management_agent"
        /\ Paths(workflow) # {}
        /\ \A p \in Paths(workflow) :
               /\ Len(p) = 5
               /\ p[1] = "start_node"
               /\ p[2] \in SelectedNodes(wf_input)
               /\ p[3] = "risk_management_agent"
               /\ p[4] = "portfolio_management_agent"
               /\ p[5] = END

C10_Witness ==
    /\ stage = "ended"
    /\ ValidSelection(wf_input)
    /\ Len(wf_input.keys) = 3
    /\ Len(ran) = 6

(***************************************************************************)
(* SpecDisplay: display_signal applied to a signal structure.              *)
(***************************************************************************)
InitDisplay ==
    /\ UiIdle
    /\ WfIdle
    /\ signal_data \in Structures(MaxDepth) \cup SampleSignals
    /\ shown = Ok(<<>>)
    /\ displayed = FALSE

DisplaySignal ==
    /\ ~displayed
    /\ shown' = display_signal(signal_data, 0)
    /\ displayed' = TRUE
    /\ UNCHANGED <<signal_data, uiVars, wfVars>>

NextDisplay == DisplaySignal

SpecDisplay == InitDisplay /\ [][NextDisplay]_vars

\* C6: display_signal returns normally on every structure nested from dicts
\* and scalar values.
C6_ReturnsNormally == displayed => shown.raised = NoError

====
